---- MODULE Spec2Model ----
(***************************************************************************)
(* Model of src/main.cpp: a sawtooth generator whose audio callback        *)
(* (PortAudio thread) records every 4th frame of a block into a ring       *)
(* buffer guarded by bufferMutex, a main loop that updates three knobs     *)
(* from the hand pointer and draws the ring buffer, and a UDP listener     *)
(* thread that stores parsed packets into three separate atomics.          *)
(*                                                                         *)
(* Numbers.  Knob values, the oscillator parameters stored from them       *)
(* (frequency, phaseOffset, amplitude), the phase and the samples are      *)
(* floats, modelled bit for bit with every operation of Knob::update and   *)
(* of the callback rounded as the build rounds it (see the section on      *)
(* float arithmetic).  Pointer coordinates are ints.                       *)
(* The ring capacity WAVE_SAMPLES (800 in the source, line 21) is scaled   *)
(* down so that wrap-around and full passes are explored exhaustively.     *)
(***************************************************************************)
EXTENDS Integers, Sequences, FiniteSets, TLC

\* ------------------------------------------------------------------ bounds
\* Ring capacity (#define WAVE_SAMPLES 800, scaled down).
WAVE_SAMPLES == 3
\* Largest block size (framesPerBuffer) the backend hands to the callback.
MaxFramesPerBuffer == 5
\* Total number of frames generated before the stream is no longer called.
MaxStreamFrames == 9
\* Number of datagrams the listener receives.
MaxPackets == 2

\* ------------------------------------------------------- program constants
SAMPLE_RATE == 44100
KNOB_RADIUS == 30
WINDOW_HEIGHT == 600
KNOB_PANEL_HEIGHT == 120
\* char buf[64] of udpListener.
BufSize == 64

Knobs == 0 .. 2

\* What main() initialises or creates before the main loop and releases
\* afterwards: SDL, the window, the renderer, PortAudio, the stream.
Subsystems == {"sdl", "window", "renderer", "pa", "stream"}

\* The library calls of a startup in which every call succeeds (lines
\* 284-352).
StartupCalls ==
    <<"SDL_Init", "SDL_CreateWindow", "SDL_CreateRenderer", "Pa_Initialize",
      "Pa_OpenDefaultStream", "Pa_StartStream", "std::thread">>

VARIABLES
    \* SawtoothData (lines 142-153)
    frequency, phase, phaseOffset, amplitude, waveBuffer, bufferIndex,
    bufferMutex,
    \* sawtoothCallback's activation: position, framesPerBuffer, loop index i,
    \* the last frame written to the output buffer, and the local
    \* adjustedPhase between lines 169 and 173
    apc, framesPerBuffer, ai, out, adjustedPhase,
    \* main(): position, the knobs vector, the loop index of the knob loop,
    \* the argument values of the pending Knob::update call and which of them
    \* are still to be loaded, drawWaveform's loop index and the segments drawn
    mpc, knobs, knobI, argX, argY, argDown, pending, drawI, polyline,
    \* udpListener: position, the locals x, y, pinch of the packet being stored
    lpc, lx, ly, lpinch,
    \* the three atomics (lines 256-257)
    handX, handY, handPinch,
    \* history (not program state): frames generated so far, the frames
    \* recorded into the ring buffer, buffer writes / reads in the current
    \* lock hold, well-formed packets received so far and their number, the
    \* engagement each knob saw at its previous update, whether the knob being
    \* updated was dragging before the update, whether some update so far was
    \* called with arguments that are not the content of one packet
    \* the datagrams received so far in order
    framesGenerated, recorded, holdWrites, holdReads, delivered, nPackets,
    prevDown, wasDragging, torn, received,
    \* main()'s locals running, mouseX, mouseY, mouseDown (lines 355-358)
    running, mainMouseX, mainMouseY, mainMouseDown,
    \* the process: the subsystems and resources that are initialised and not
    \* yet released, whether Pa_StartStream reported an error, whether the
    \* stream was started, whether the listener thread was started, and the
    \* exit status (a set: empty while the process runs)
    held, startError, streamStarted, listenerStarted, exitStatus,
    \* history of the process: the library calls main() has made, in order,
    \* and the startup call that failed ("none" when none did)
    calls, failedAt

audioVars == <<frequency, phase, phaseOffset, amplitude, waveBuffer, bufferIndex>>
cbVars == <<apc, framesPerBuffer, ai, out, adjustedPhase>>
mainVars == <<mpc, knobs, knobI, argX, argY, argDown, pending, drawI, polyline>>
listenerVars == <<lpc, lx, ly, lpinch>>
handVars == <<handX, handY, handPinch>>
histVars == <<framesGenerated, recorded, holdWrites, holdReads, delivered,
              nPackets, prevDown, wasDragging, torn, received>>
mouseVars == <<running, mainMouseX, mainMouseY, mainMouseDown>>
procVars == <<held, startError, streamStarted, listenerStarted, exitStatus,
             calls, failedAt>>
vars == <<audioVars, bufferMutex, cbVars, mainVars, listenerVars, handVars,
          histVars, mouseVars, procVars>>

\* ------------------------------------------------------- float arithmetic
\* The oscillator's numbers are C floats (IEEE 754 binary32), and the build
\* (g++ without options, line 462) rounds every operation to float.  A float
\* is modelled exactly as a record [neg, m, e] of value m * 2^e, negated when
\* neg: m = 0 for zero, otherwise 2^23 <= m < 2^24.  Every operation rounds
\* to the nearest float, ties to the even mantissa.  The exponents of the
\* values computed here stay far inside the range of float, so infinities,
\* NaNs and subnormal numbers do not arise; -0.0f is modelled as 0.0f.
\* The operations are functions, applied to the values of their arguments.
Floats == [neg : BOOLEAN, m : Nat, e : Int]
FloatZero == [neg |-> FALSE, m |-> 0, e |-> 0]

\* The powers of two below 2^31.
PowerOfTwo == [i \in 0 .. 30 |-> 2^i]

\* The number of bits of n, for 0 <= n < 2^31.
BitLength[n \in Nat] == Cardinality({i \in 0 .. 30 : PowerOfTwo[i] <= n})

\* The float of mantissa q and exponent e, negated when neg, q being the
\* top 24 bits of a longer number, r the bits below them and half the weight
\* of the highest of those: q is rounded up when r is above half, or is half
\* and q is odd.
FloatRoundShifted[neg \in BOOLEAN, q \in Nat, r \in Nat, half \in Nat, e \in Int] ==
    LET up == r > half \/ (r = half /\ q % 2 = 1)
    IN  IF up /\ q + 1 = 2^24
        THEN [neg |-> neg, m |-> 2^23, e |-> e + 1]
        ELSE [neg |-> neg, m |-> IF up THEN q + 1 ELSE q, e |-> e]

\* The float nearest to x * 2^e (negated when neg), x having n bits, n > 0.
FloatRoundBits[neg \in BOOLEAN, x \in Nat, e \in Int, n \in Nat] ==
    IF n <= 24
    THEN [neg |-> neg, m |-> x * 2^(24 - n), e |-> e - (24 - n)]
    ELSE FloatRoundShifted[neg, x \div 2^(n - 24), x % 2^(n - 24),
                           2^(n - 25), e + (n - 24)]

\* The float nearest to x * 2^e (negated when neg), for 0 <= x < 2^31.
FloatRound[neg \in BOOLEAN, x \in Nat, e \in Int] ==
    IF x = 0 THEN FloatZero ELSE FloatRoundBits[neg, x, e, BitLength[x]]

\* The float of an int of magnitude below 2^31.
IntToFloat[n \in Int] == FloatRound[n < 0, IF n < 0 THEN 0 - n ELSE n, 0]

FloatNeg[a \in Floats] == IF a.m = 0 THEN a ELSE [a EXCEPT !.neg = ~a.neg]

\* |a| >= |b|.
MagnitudeGe[a \in Floats, b \in Floats] ==
    \/ b.m = 0
    \/ a.m # 0 /\ (a.e > b.e \/ (a.e = b.e /\ a.m >= b.m))

\* a >= b.
FloatGe[a \in Floats, b \in Floats] ==
    IF a.neg = b.neg
    THEN IF a.neg THEN MagnitudeGe[b, a] ELSE MagnitudeGe[a, b]
    ELSE b.neg

\* a < b.
FloatLt[a \in Floats, b \in Floats] == ~FloatGe[a, b]

\* a + b.  The mantissa of the larger operand gets four more bits; that of
\* the smaller is shifted to the same exponent, and its lowest bit records
\* whether any bit was shifted out.
FloatAdd[a \in Floats, b \in Floats] ==
    IF a.m = 0 THEN b
    ELSE IF b.m = 0 THEN a
    ELSE LET big == IF MagnitudeGe[a, b] THEN a ELSE b
             small == IF MagnitudeGe[a, b] THEN b ELSE a
             d == big.e - small.e
             x == big.m * 16
             t == small.m * 16
             y == IF d >= 28 THEN 1
                  ELSE LET s == t \div 2^d
                       IN  IF t % 2^d = 0 THEN s ELSE 2 * (s \div 2) + 1
         IN  IF big.neg = small.neg
             THEN FloatRound[big.neg, x + y, big.e - 4]
             ELSE FloatRound[big.neg, x - y, big.e - 4]

FloatSub[a \in Floats, b \in Floats] == FloatAdd[a, FloatNeg[b]]

\* a * b.  The 48-bit product of the mantissas is computed from their 12-bit
\* halves as hi * 2^24 + lo; its top 29 bits and one bit that records
\* whether any lower bit is set are rounded.
FloatMul[a \in Floats, b \in Floats] ==
    IF a.m = 0 \/ b.m = 0 THEN FloatZero
    ELSE LET ah == a.m \div 4096
             al == a.m % 4096
             bh == b.m \div 4096
             bl == b.m % 4096
             mid == ah * bl + al * bh
             low == al * bl + (mid % 4096) * 4096
             lo == low % 2^24
             hi == ah * bh + mid \div 4096 + low \div 2^24
             x == hi * 16 + lo \div 2^20
             sticky == IF lo % 2^20 = 0 THEN 0 ELSE 1
         IN  FloatRound[a.neg # b.neg, 2 * x + sticky, a.e + b.e + 19]

\* a / b for b other than zero: the quotient of a.m * 2^26 by b.m, computed
\* 7, 7, 7 and 5 bits at a time, and one bit that records whether the
\* division left a remainder are rounded.
FloatDiv[a \in Floats, b \in Floats] ==
    IF a.m = 0 THEN FloatZero
    ELSE LET q0 == a.m \div b.m
             r0 == a.m % b.m
             q1 == (r0 * 128) \div b.m
             r1 == (r0 * 128) % b.m
             q2 == (r1 * 128) \div b.m
             r2 == (r1 * 128) % b.m
             q3 == (r2 * 128) \div b.m
             r3 == (r2 * 128) % b.m
             q4 == (r3 * 32) \div b.m
             r4 == (r3 * 32) % b.m
             q == (((q0 * 128 + q1) * 128 + q2) * 128 + q3) * 32 + q4
             sticky == IF r4 = 0 THEN 0 ELSE 1
         IN  FloatRound[a.neg # b.neg, 2 * q + sticky, a.e - b.e - 27]

\* fmod(a, 1.0f): a without its integer part, with the sign of a (exact).
FloatFmodOne[a \in Floats] ==
    IF a.m = 0 \/ a.e >= 0 THEN FloatZero
    ELSE IF a.e <= 0 - 24 THEN a
    ELSE FloatRound[a.neg, a.m % 2^(0 - a.e), a.e]

FloatOne == IntToFloat[1]
FloatTwo == IntToFloat[2]

\* The float of a decimal literal of h hundredths (0.3f is Float[30]): the
\* one nearest to h / 100.
Float[h \in Int] == FloatDiv[IntToFloat[h], IntToFloat[100]]

\* ------------------------------------------------------ waveform generator
AdjustedPhaseUnfolded(p, o) == FloatAdd[p, o]
\* Lines 169-170: adjustedPhase = fmod(phase + phaseOffset, 1.0f), plus 1.0f
\* when negative.
AdjustedPhase(p, o) ==
    LET r == FloatFmodOne[FloatAdd[p, o]]
    IN  IF r.neg THEN FloatAdd[r, FloatOne] ELSE r

\* Line 173: sample = (2.0f * adjustedPhase - 1.0f) * amplitude, from the
\* local adjustedPhase and the amplitude read at that line.
SawSample(adj, a) ==
    FloatMul[FloatSub[FloatMul[FloatTwo, adj], FloatOne], a]

AdvancePhaseWrapAboveOne(p, f) ==
    LET q == FloatAdd[p, FloatDiv[f, IntToFloat[SAMPLE_RATE]]]
    IN  IF FloatGe[q, FloatOne] /\ q # FloatOne
        THEN FloatSub[q, FloatOne] ELSE q
\* Lines 184-187: phase += frequency / SAMPLE_RATE, minus 1.0f when the sum
\* is 1.0f or more.  The quotient and the sum are each rounded to float, and
\* the rounded sum is what line 185 compares (at 441 Hz the exact sum after
\* 100 frames is 1.0 and the float sum is 0.99999934, which is not reduced).
AdvancePhase(p, f) ==
    LET q == FloatAdd[p, FloatDiv[f, IntToFloat[SAMPLE_RATE]]]
    IN  IF FloatGe[q, FloatOne] THEN FloatSub[q, FloatOne] ELSE q

RecordFrameEverySecond(i) == i % 2 = 0
\* Line 175: the frames of a block that are recorded, by loop index i.
RecordFrame(i) == i % 4 = 0

AdvanceCursorNoWrap(b) == b + 1
\* Line 177: the cursor after a write.
AdvanceCursor(b) == (b + 1) % WAVE_SAMPLES

\* ------------------------------------------------------------ bufferMutex
MutexFree == bufferMutex = "none"

\* --------------------------------------------------------- audio callback
\* The backend calls sawtoothCallback with a block of n frames (line 156).
AudioInvoke(n) ==
    /\ apc = "idle"
    /\ framesGenerated + n <= MaxStreamFrames
    /\ apc' = "lock"
    /\ framesPerBuffer' = n
    /\ UNCHANGED <<audioVars, bufferMutex, ai, out, adjustedPhase, mainVars,
                   listenerVars, handVars, histVars>>

\* Line 165: std::lock_guard<std::mutex> lock(data->bufferMutex), taken once,
\* before the frame loop.
AudioLock ==
    /\ apc = "lock"
    /\ MutexFree
    /\ bufferMutex' = "audio"
    /\ apc' = "loop"
    /\ ai' = 0
    /\ holdWrites' = 0
    /\ UNCHANGED <<audioVars, framesPerBuffer, out, adjustedPhase, mainVars,
                   listenerVars, handVars, framesGenerated, recorded,
                   holdReads, delivered,
                   nPackets, received, prevDown, wasDragging, torn>>

\* Lines 167-170: the loop goes on with frame i; data->phase and
\* data->phaseOffset are read and folded into the local adjustedPhase.
AudioFrameAdjust ==
    /\ apc = "loop"
    /\ ai < framesPerBuffer
    /\ adjustedPhase' = AdjustedPhase(phase, phaseOffset)
    /\ apc' = "sample"
    /\ UNCHANGED <<audioVars, bufferMutex, framesPerBuffer, ai, out, mainVars,
                   listenerVars, handVars, histVars>>

\* Lines 173-181: data->amplitude is read, the sample is computed, recorded
\* into the ring buffer when i is a multiple of 4, and written to both
\* channels of the output frame.
AudioFrameSample ==
    /\ apc = "sample"
    /\ LET sample == SawSample(adjustedPhase, amplitude)
       IN  /\ IF RecordFrame(ai)
              THEN /\ waveBuffer' = [waveBuffer EXCEPT ![bufferIndex] = sample]
                   /\ bufferIndex' = AdvanceCursor(bufferIndex)
                   /\ recorded' = Append(recorded,
                          [frame |-> framesGenerated, i |-> ai, sample |-> sample])
                   /\ holdWrites' = holdWrites + 1
              ELSE UNCHANGED <<waveBuffer, bufferIndex, recorded, holdWrites>>
           /\ out' = <<sample, sample>>
    /\ framesGenerated' = framesGenerated + 1
    /\ adjustedPhase' = FloatZero
    /\ apc' = "advance"
    /\ UNCHANGED <<frequency, phase, phaseOffset, amplitude, bufferMutex,
                   framesPerBuffer, ai, mainVars, listenerVars, handVars,
                   holdReads, delivered, nPackets, received, prevDown,
                   wasDragging, torn>>

\* Lines 184-187 and the i++ of line 167: data->frequency is read and the
\* phase advanced; the frame is done.
AudioFrameAdvance ==
    /\ apc = "advance"
    /\ phase' = AdvancePhase(phase, frequency)
    /\ ai' = ai + 1
    /\ apc' = "loop"
    /\ UNCHANGED <<frequency, phaseOffset, amplitude, waveBuffer, bufferIndex,
                   bufferMutex, framesPerBuffer, out, adjustedPhase, mainVars,
                   listenerVars, handVars, framesGenerated, recorded,
                   holdWrites, holdReads,
                   delivered, nPackets, received, prevDown, wasDragging, torn>>

\* Line 190 and the end of the lock_guard's scope: return paContinue.
AudioReturn ==
    /\ apc = "loop"
    /\ ai = framesPerBuffer
    /\ bufferMutex' = "none"
    /\ apc' = "idle"
    /\ UNCHANGED <<audioVars, framesPerBuffer, ai, out, adjustedPhase, mainVars,
                   listenerVars, handVars, histVars>>

AudioNext ==
    \/ \E n \in 1 .. MaxFramesPerBuffer : AudioInvoke(n)
    \/ AudioLock
    \/ AudioFrameAdjust
    \/ AudioFrameSample
    \/ AudioFrameAdvance
    \/ AudioReturn

\* ------------------------------------------------------------ drawWaveform
SampleIndexFromZero(b, i) == i % WAVE_SAMPLES
\* Lines 203-204: the slot read at position i of a pass, b being the cursor.
SampleIndex(b, i) == (b + i) % WAVE_SAMPLES

DrawWithoutLock ==
    /\ mpc = "draw_lock"
    /\ mpc' = "draw_loop"
    /\ drawI' = 0
    /\ polyline' = <<>>
    /\ holdReads' = 0
    /\ UNCHANGED <<audioVars, bufferMutex, cbVars, knobs, knobI, argX, argY,
                   argDown, pending, listenerVars, handVars, framesGenerated,
                   recorded, holdWrites, delivered, nPackets, received, prevDown,
                   wasDragging, torn>>
\* Line 194: std::lock_guard<std::mutex> lock(data.bufferMutex), taken once,
\* before the loop over the samples.
DrawLock ==
    /\ mpc = "draw_lock"
    /\ MutexFree
    /\ bufferMutex' = "main"
    /\ mpc' = "draw_loop"
    /\ drawI' = 0
    /\ polyline' = <<>>
    /\ holdReads' = 0
    /\ UNCHANGED <<audioVars, cbVars, knobs, knobI, argX, argY, argDown,
                   pending, listenerVars, handVars, framesGenerated, recorded,
                   holdWrites, delivered, nPackets, received, prevDown, wasDragging, torn>>

\* Lines 202-215: one iteration of the loop: two buffer reads, one segment.
DrawSegment ==
    /\ mpc = "draw_loop"
    /\ drawI < WAVE_SAMPLES - 1
    /\ LET sampleIndex1 == SampleIndex(bufferIndex, drawI)
           sampleIndex2 == SampleIndex(bufferIndex, drawI + 1)
       IN  polyline' = Append(polyline,
               <<waveBuffer[sampleIndex1], waveBuffer[sampleIndex2]>>)
    /\ drawI' = drawI + 1
    /\ holdReads' = holdReads + 2
    /\ UNCHANGED <<audioVars, bufferMutex, cbVars, mpc, knobs, knobI, argX,
                   argY, argDown, pending, listenerVars, handVars,
                   framesGenerated, recorded, holdWrites, delivered, nPackets, received,
                   prevDown, wasDragging, torn>>

\* Line 216: the loop is over, the lock_guard releases the mutex.
DrawReturn ==
    /\ mpc = "draw_loop"
    /\ drawI = WAVE_SAMPLES - 1
    /\ bufferMutex' = "none"
    /\ mpc' = "present"
    /\ UNCHANGED <<audioVars, cbVars, knobs, knobI, argX, argY, argDown,
                   pending, drawI, polyline, listenerVars, handVars, histVars>>

\* Lines 415-446: the rest of the frame (panel, knobs, hand indicator,
\* present, delay), which changes no program state of the model; control
\* returns to the loop condition.
MainPresent ==
    /\ mpc = "present"
    /\ mpc' = "while"
    /\ polyline' = <<>>
    /\ UNCHANGED <<audioVars, bufferMutex, cbVars, knobs, knobI, argX, argY,
                   argDown, pending, drawI, listenerVars, handVars, histVars>>

\* Line 360: while(running), the loop goes on.
MainWhile ==
    /\ mpc = "while"
    /\ running
    /\ mpc' = "poll"
    /\ UNCHANGED <<audioVars, bufferMutex, cbVars, knobs, knobI, argX, argY,
                   argDown, pending, drawI, polyline, listenerVars, handVars,
                   histVars>>

\* -------------------------------------------------------------------- Knob
\* Lines 337-341: the three knobs (Frequency, Phase, Amplitude) with their
\* minimum, maximum and initial values, the floats of the literals 50.0f,
\* 2000.0f, 440.0f, 0.0f, 1.0f and 0.3f.
KnobX(k) == CASE k = 0 -> 150 [] k = 1 -> 350 [] k = 2 -> 550
KnobY(k) == WINDOW_HEIGHT - KNOB_PANEL_HEIGHT \div 2
KnobMin(k) ==
    CASE k = 0 -> IntToFloat[50] [] k = 1 -> FloatZero [] k = 2 -> FloatZero
KnobMaxPhaseTwo(k) ==
    CASE k = 0 -> IntToFloat[2000] [] k = 1 -> FloatTwo [] k = 2 -> FloatOne
KnobMax(k) ==
    CASE k = 0 -> IntToFloat[2000] [] k = 1 -> FloatOne [] k = 2 -> FloatOne
KnobInitial(k) ==
    CASE k = 0 -> IntToFloat[440] [] k = 1 -> FloatZero [] k = 2 -> Float[30]

\* Lines 34-36: a knob after construction.
NewKnob(k) ==
    [value |-> KnobInitial(k), isDragging |-> FALSE, dragStartY |-> FloatZero,
     dragStartValue |-> FloatZero]

\* Lines 39-41 and the test distance <= KNOB_RADIUS of line 43: the square
\* root of an integer is at most 30 exactly when the integer is at most 900.
WithinRadius(k, mouseX, mouseY) ==
    LET dx == mouseX - KnobX(k)
        dy == mouseY - KnobY(k)
    IN  dx * dx + dy * dy <= KNOB_RADIUS * KNOB_RADIUS

\* Line 52: sensitivity = (maxValue - minValue) / 100.0f, rounded to float
\* (19.5 for the frequency knob, the float next to 0.01 for the others).
Sensitivity(k) == FloatDiv[FloatSub[KnobMax(k), KnobMin(k)], IntToFloat[100]]

ClampToMinimumOnly(k, v) == IF FloatLt[KnobMin(k), v] THEN v ELSE KnobMin(k)
\* Line 54: std::max(minValue, std::min(maxValue, value)); std::min(a, b) is
\* b when b < a and a otherwise, std::max(a, b) is b when a < b and a
\* otherwise.
Clamp(k, v) ==
    LET m == IF FloatLt[v, KnobMax(k)] THEN v ELSE KnobMax(k)
    IN  IF FloatLt[KnobMin(k), m] THEN m ELSE KnobMin(k)

StartsDragWhileDragging(kn, k, mouseX, mouseY, mouseDown) ==
    mouseDown /\ WithinRadius(k, mouseX, mouseY)
\* Line 43: the condition under which an update starts a drag.
StartsDrag(kn, k, mouseX, mouseY, mouseDown) ==
    mouseDown /\ WithinRadius(k, mouseX, mouseY) /\ ~kn.isDragging

KnobUpdateReleaseInsideOnly(kn, k, mouseX, mouseY, mouseDown) ==
    LET k1 == IF StartsDrag(kn, k, mouseX, mouseY, mouseDown)
              THEN [kn EXCEPT !.isDragging = TRUE,
                              !.dragStartY = IntToFloat[mouseY],
                              !.dragStartValue = kn.value]
              ELSE kn
    IN  IF k1.isDragging
        THEN IF mouseDown
             THEN LET deltaY == FloatSub[k1.dragStartY, IntToFloat[mouseY]]
                  IN  [k1 EXCEPT !.value =
                          Clamp(k, FloatAdd[k1.dragStartValue,
                                            FloatMul[deltaY, Sensitivity(k)]])]
             ELSE IF WithinRadius(k, mouseX, mouseY)
                  THEN [k1 EXCEPT !.isDragging = FALSE]
                  ELSE k1
        ELSE k1
\* Lines 38-59: Knob::update; kn is the knob before the call, the result is
\* the knob after it.  dragStartY is the float of the pointer's y (line 45),
\* deltaY the float difference of line 51 and the value the rounded sum of
\* the start value and the rounded product of line 53, clamped by line 54.
KnobUpdate(kn, k, mouseX, mouseY, mouseDown) ==
    LET k1 == IF StartsDrag(kn, k, mouseX, mouseY, mouseDown)
              THEN [kn EXCEPT !.isDragging = TRUE,
                              !.dragStartY = IntToFloat[mouseY],
                              !.dragStartValue = kn.value]
              ELSE kn
    IN  IF k1.isDragging
        THEN IF mouseDown
             THEN LET deltaY == FloatSub[k1.dragStartY, IntToFloat[mouseY]]
                  IN  [k1 EXCEPT !.value =
                          Clamp(k, FloatAdd[k1.dragStartValue,
                                            FloatMul[deltaY, Sensitivity(k)]])]
             ELSE [k1 EXCEPT !.isDragging = FALSE]
        ELSE k1

\* ---------------------------------------------------------------- main loop
\* Lines 361-389: SDL_PollEvent reports no further event; the knob loop
\* starts with knob 0.  The three arguments of the call of line 390 are
\* loaded from the atomics one by one, in an order the language leaves open.
MainPoll ==
    /\ mpc = "poll"
    /\ mpc' = "args"
    /\ knobI' = 0
    /\ pending' = {"x", "y", "pinch"}
    /\ UNCHANGED <<audioVars, bufferMutex, cbVars, knobs, argX, argY, argDown,
                   drawI, polyline, listenerVars, handVars, histVars>>

\* Line 390: the load of handX for the call.
MainLoadHandX ==
    /\ mpc = "args"
    /\ "x" \in pending
    /\ argX' = handX
    /\ pending' = pending \ {"x"}
    /\ UNCHANGED <<audioVars, bufferMutex, cbVars, mpc, knobs, knobI, argY,
                   argDown, drawI, polyline, listenerVars, handVars, histVars>>

\* Line 390: the load of handY for the call.
MainLoadHandY ==
    /\ mpc = "args"
    /\ "y" \in pending
    /\ argY' = handY
    /\ pending' = pending \ {"y"}
    /\ UNCHANGED <<audioVars, bufferMutex, cbVars, mpc, knobs, knobI, argX,
                   argDown, drawI, polyline, listenerVars, handVars, histVars>>

\* Line 390: the load of handPinch for the call.
MainLoadHandPinch ==
    /\ mpc = "args"
    /\ "pinch" \in pending
    /\ argDown' = handPinch
    /\ pending' = pending \ {"pinch"}
    /\ UNCHANGED <<audioVars, bufferMutex, cbVars, mpc, knobs, knobI, argX,
                   argY, drawI, polyline, listenerVars, handVars, histVars>>

MainKnobUpdateFromMouse ==
    /\ mpc = "args"
    /\ pending = {}
    /\ knobs' = [knobs EXCEPT ![knobI] =
                    KnobUpdate(knobs[knobI], knobI, mainMouseX, mainMouseY,
                               mainMouseDown)]
    /\ wasDragging' = knobs[knobI].isDragging
    /\ torn' = (torn \/ <<argX, argY, argDown>> \notin delivered)
    /\ mpc' = "sync"
    /\ UNCHANGED <<audioVars, bufferMutex, cbVars, knobI, argX, argY, argDown,
                   pending, drawI, polyline, listenerVars, handVars,
                   framesGenerated, recorded, holdWrites, holdReads, delivered,
                   nPackets, received, prevDown>>
\* Line 390: knobs[i].update(handX, handY, handPinch) with the loaded values.
MainKnobUpdate ==
    /\ mpc = "args"
    /\ pending = {}
    /\ knobs' = [knobs EXCEPT ![knobI] =
                    KnobUpdate(knobs[knobI], knobI, argX, argY, argDown)]
    /\ wasDragging' = knobs[knobI].isDragging
    /\ torn' = (torn \/ <<argX, argY, argDown>> \notin delivered)
    /\ mpc' = "sync"
    /\ UNCHANGED <<audioVars, bufferMutex, cbVars, knobI, argX, argY, argDown,
                   pending, drawI, polyline, listenerVars, handVars,
                   framesGenerated, recorded, holdWrites, holdReads, delivered,
                   nPackets, received, prevDown>>

\* Lines 393-404: the knob's value is copied to its oscillator parameter and
\* the loop goes on with the next knob, or, after the last one, with the
\* drawing (lines 407-413; clearing, title and grid change no state here).
MainSync ==
    /\ mpc = "sync"
    /\ frequency' = IF knobI = 0 THEN knobs[knobI].value ELSE frequency
    /\ phaseOffset' = IF knobI = 1 THEN knobs[knobI].value ELSE phaseOffset
    /\ amplitude' = IF knobI = 2 THEN knobs[knobI].value ELSE amplitude
    /\ prevDown' = [prevDown EXCEPT ![knobI] = argDown]
    /\ wasDragging' = FALSE
    /\ argX' = 0
    /\ argY' = 0
    /\ argDown' = FALSE
    /\ knobI' = knobI + 1
    /\ IF knobI + 1 < Cardinality(Knobs)
       THEN /\ mpc' = "args"
            /\ pending' = {"x", "y", "pinch"}
       ELSE /\ mpc' = "draw_lock"
            /\ pending' = {}
    /\ UNCHANGED <<phase, waveBuffer, bufferIndex, bufferMutex, cbVars, knobs,
                   drawI, polyline, listenerVars, handVars, framesGenerated,
                   recorded, holdWrites, holdReads, delivered, nPackets, received, torn>>

MainNext ==
    \/ MainWhile
    \/ MainPoll
    \/ MainLoadHandX
    \/ MainLoadHandY
    \/ MainLoadHandPinch
    \/ MainKnobUpdate
    \/ MainSync
    \/ DrawLock
    \/ DrawSegment
    \/ DrawReturn
    \/ MainPresent

\* ------------------------------------------------------------- udpListener
\* A datagram is its sequence of characters.
Digits == {"0", "1", "2", "3", "4", "5", "6", "7", "8", "9"}
DigitValue(c) ==
    CASE c = "0" -> 0 [] c = "1" -> 1 [] c = "2" -> 2 [] c = "3" -> 3
      [] c = "4" -> 4 [] c = "5" -> 5 [] c = "6" -> 6 [] c = "7" -> 7
      [] c = "8" -> 8 [] c = "9" -> 9

\* The datagrams the sender may send:
\* "100,200,1" "garbage" "10,20" "150,540,1" "150,490,1" "150,1040,1"
\* "150,530,1"
Packets ==
    { <<"1", "0", "0", ",", "2", "0", "0", ",", "1">>,
      <<"g", "a", "r", "b", "a", "g", "e">>,
      <<"1", "0", ",", "2", "0">>,
      <<"1", "5", "0", ",", "5", "4", "0", ",", "1">>,
      <<"1", "5", "0", ",", "4", "9", "0", ",", "1">>,
      <<"1", "5", "0", ",", "1", "0", "4", "0", ",", "1">>,
      <<"1", "5", "0", ",", "5", "3", "0", ",", "1">> }

\* Datagrams that drag the frequency knob 50 pixels up and 500 pixels down
\* from its centre, and one that engages the phase knob 5 pixels below its
\* centre:
\* "150,540,1" "150,490,1" "150,1040,1" "350,545,1"
\* A knob that is Dragging follows the y of every engaged datagram, so the
\* phase knob engaged by the last is moved 5 pixels up by the first.
DragPackets ==
    { <<"1", "5", "0", ",", "5", "4", "0", ",", "1">>,
      <<"1", "5", "0", ",", "4", "9", "0", ",", "1">>,
      <<"1", "5", "0", ",", "1", "0", "4", "0", ",", "1">>,
      <<"3", "5", "0", ",", "5", "4", "5", ",", "1">> }

\* Datagrams that engage each knob (at its centre, 5 pixels below and 30
\* pixels above it) and carry the pointer far outside the window:
\* "150,540,1" "350,545,1" "550,510,1" "150,-9999,1" "550,9999,1"
\* A knob that is Dragging follows the y of every engaged datagram, so the
\* phase knob engaged by the second is moved 5 pixels up by the first, and
\* the amplitude knob engaged by the third 30 pixels down.
KnobPackets ==
    { <<"1", "5", "0", ",", "5", "4", "0", ",", "1">>,
      <<"3", "5", "0", ",", "5", "4", "5", ",", "1">>,
      <<"5", "5", "0", ",", "5", "1", "0", ",", "1">>,
      <<"1", "5", "0", ",", "-", "9", "9", "9", "9", ",", "1">>,
      <<"5", "5", "0", ",", "9", "9", "9", "9", ",", "1">> }

\* The vertical tab, byte 11: the string holds the byte itself.
VerticalTab == ""

\* Datagrams with and without a pinch field, with a pinch other than 0 and
\* 1, with a negative coordinate, and datagrams without both coordinates:
\* "100,200,1" "garbage" "10,20" "10" "5,6,2" "-3,4,1" "100 ,200" "7,8,x";
\* a datagram that starts with a form feed, "\f5,6,1", and one with a
\* vertical tab before y, "5,\v6"; one whose pinch is
\* beyond the range of int, "1,2,4294967297"; and one of 65 bytes, 60 spaces
\* followed by "1,2,1".
ParsePackets ==
    { <<"1", "0", "0", ",", "2", "0", "0", ",", "1">>,
      <<"g", "a", "r", "b", "a", "g", "e">>,
      <<"1", "0", ",", "2", "0">>,
      <<"1", "0">>,
      <<"5", ",", "6", ",", "2">>,
      <<"-", "3", ",", "4", ",", "1">>,
      <<"1", "0", "0", " ", ",", "2", "0", "0">>,
      <<"7", ",", "8", ",", "x">>,
      <<"\f", "5", ",", "6", ",", "1">>,
      <<"5", ",", VerticalTab, "6">>,
      <<"1", ",", "2", ",",
        "4", "2", "9", "4", "9", "6", "7", "2", "9", "7">>,
      [i \in 1 .. 60 |-> " "] \o <<"1", ",", "2", ",", "1">> }

\* %d skips leading white space: the six characters for which isspace()
\* holds.
WhiteSpace == {" ", "\t", "\n", VerticalTab, "\f", "\r"}
RECURSIVE SkipSpace(_, _)
SkipSpace(s, pos) ==
    IF pos <= Len(s) /\ s[pos] \in WhiteSpace
    THEN SkipSpace(s, pos + 1)
    ELSE pos

\* A 64-bit magnitude as four 16-bit limbs, lowest first, with a flag for a
\* magnitude of 2^64 or more.
Limb == 65536
ZeroMagnitude == [limbs |-> <<0, 0, 0, 0>>, over |-> FALSE]
AppendDigit(m, d) ==
    LET t1 == 10 * m.limbs[1] + d
        t2 == 10 * m.limbs[2] + t1 \div Limb
        t3 == 10 * m.limbs[3] + t2 \div Limb
        t4 == 10 * m.limbs[4] + t3 \div Limb
    IN  [limbs |-> <<t1 % Limb, t2 % Limb, t3 % Limb, t4 % Limb>>,
         over |-> m.over \/ t4 >= Limb]

\* %d reads the longest run of decimal digits.
RECURSIVE ScanDigits(_, _, _)
ScanDigits(s, pos, acc) ==
    IF pos <= Len(s) /\ s[pos] \in Digits
    THEN ScanDigits(s, pos + 1, AppendDigit(acc, DigitValue(s[pos])))
    ELSE [val |-> acc, next |-> pos]

\* The int that %d stores for the digits of magnitude m with or without a
\* minus sign, as the C library of the build does it: the digits are
\* converted to a long that saturates at LONG_MAX and LONG_MIN, and the low
\* 32 bits of that long are stored.  (For a number outside the range of int
\* the language leaves the result open; this is the one the build produces.)
StoredInt(m, minus) ==
    LET saturated == m.over \/ m.limbs[4] >= Limb \div 2
        lo == m.limbs[1]
        hi == m.limbs[2]
        low32 ==
            IF ~minus
            THEN IF saturated THEN <<Limb - 1, Limb - 1>> ELSE <<lo, hi>>
            ELSE IF saturated THEN <<0, 0>>
            ELSE <<(Limb - lo) % Limb,
                   (2 * Limb - hi - (IF lo = 0 THEN 0 ELSE 1)) % Limb>>
    IN  IF low32[2] >= Limb \div 2
        THEN (low32[2] - Limb) * Limb + low32[1]
        ELSE low32[2] * Limb + low32[1]

\* One %d conversion of sscanf from position pos: optional white space, an
\* optional sign, at least one digit.
ScanInt(s, pos) ==
    LET p1 == SkipSpace(s, pos)
        signed == p1 <= Len(s) /\ s[p1] \in {"-", "+"}
        p2 == IF signed THEN p1 + 1 ELSE p1
    IN  IF p2 <= Len(s) /\ s[p2] \in Digits
        THEN LET d == ScanDigits(s, p2, ZeroMagnitude)
             IN  [ok |-> TRUE,
                  val |-> StoredInt(d.val, signed /\ s[p1] = "-"),
                  next |-> d.next,
                  eof |-> FALSE]
        ELSE [ok |-> FALSE, val |-> 0, next |-> p2, eof |-> p1 > Len(s)]

\* The literal ',' of the format matches one comma.
MatchComma(s, pos) == pos <= Len(s) /\ s[pos] = ","

\* Lines 271-272: int x, y, pinch = 0; sscanf(buf, "%d,%d,%d", &x, &y, &pinch).
\* n is the value sscanf returns (EOF is -1); x and y are 0 here when they
\* were not converted (they are then never read), pinch keeps its 0.
Sscanf(s) ==
    LET r1 == ScanInt(s, 1)
        r2 == ScanInt(s, r1.next + 1)
        r3 == ScanInt(s, r2.next + 1)
    IN  IF ~r1.ok
        THEN [n |-> IF r1.eof THEN 0 - 1 ELSE 0, x |-> 0, y |-> 0, pinch |-> 0]
        ELSE IF ~MatchComma(s, r1.next) \/ ~r2.ok
        THEN [n |-> 1, x |-> r1.val, y |-> 0, pinch |-> 0]
        ELSE IF ~MatchComma(s, r2.next) \/ ~r3.ok
        THEN [n |-> 2, x |-> r1.val, y |-> r2.val, pinch |-> 0]
        ELSE [n |-> 3, x |-> r1.val, y |-> r2.val, pinch |-> r3.val]

\* Line 268: recv(sockfd, buf, sizeof(buf)-1, 0) takes the first 63 bytes of
\* the datagram b and drops the rest.
Recv(b) == SubSeq(b, 1, IF Len(b) < BufSize - 1 THEN Len(b) ELSE BufSize - 1)

WellFormedWithOneField(s) == Len(s) > 0 /\ Sscanf(s).n >= 1
\* Line 272: the packet is well formed when x and y were both converted.
WellFormed(s) == Len(s) > 0 /\ Sscanf(s).n >= 2

\* Lines 268-272: the datagram b arrives; what recv takes of it is parsed; a
\* well-formed one goes on to the three stores, any other is dropped.
ListenerRecv(b) ==
    /\ lpc = "recv"
    /\ nPackets < MaxPackets
    /\ nPackets' = nPackets + 1
    /\ received' = Append(received, b)
    /\ IF WellFormed(Recv(b))
       THEN LET r == Sscanf(Recv(b))
            IN  /\ lx' = r.x
                /\ ly' = r.y
                /\ lpinch' = r.pinch
                /\ lpc' = "storeX"
                /\ delivered' = delivered \cup {<<r.x, r.y, r.pinch = 1>>}
       ELSE UNCHANGED <<listenerVars, delivered>>
    /\ UNCHANGED <<audioVars, bufferMutex, cbVars, mainVars, handVars,
                   framesGenerated, recorded, holdWrites, holdReads, prevDown,
                   wasDragging, torn>>

\* Line 273: handX = x.
ListenerStoreX ==
    /\ lpc = "storeX"
    /\ handX' = lx
    /\ lpc' = "storeY"
    /\ UNCHANGED <<audioVars, bufferMutex, cbVars, mainVars, lx, ly, lpinch,
                   handY, handPinch, histVars>>

\* Line 274: handY = y.
ListenerStoreY ==
    /\ lpc = "storeY"
    /\ handY' = ly
    /\ lpc' = "storePinch"
    /\ UNCHANGED <<audioVars, bufferMutex, cbVars, mainVars, lx, ly, lpinch,
                   handX, handPinch, histVars>>

\* Line 275: handPinch = (pinch == 1); the locals go out of scope and the
\* loop returns to recv.
ListenerStorePinch ==
    /\ lpc = "storePinch"
    /\ handPinch' = (lpinch = 1)
    /\ lpc' = "recv"
    /\ lx' = 0
    /\ ly' = 0
    /\ lpinch' = 0
    /\ UNCHANGED <<audioVars, bufferMutex, cbVars, mainVars, handX, handY,
                   histVars>>

ListenerNext ==
    \/ \E b \in Packets : ListenerRecv(b)
    \/ ListenerStoreX
    \/ ListenerStoreY
    \/ ListenerStorePinch

\* -------------------------------------------------- main: window events
\* The events SDL_PollEvent may deliver: closing the window, a key, a mouse
\* button going down or up, the mouse moving onto the frequency knob or
\* 50 pixels above it.
Events ==
    { [type |-> "SDL_QUIT", code |-> "", x |-> 0, y |-> 0],
      [type |-> "SDL_KEYDOWN", code |-> "SDLK_ESCAPE", x |-> 0, y |-> 0],
      [type |-> "SDL_KEYDOWN", code |-> "SDLK_a", x |-> 0, y |-> 0],
      [type |-> "SDL_MOUSEBUTTONDOWN", code |-> "SDL_BUTTON_LEFT", x |-> 0, y |-> 0],
      [type |-> "SDL_MOUSEBUTTONDOWN", code |-> "SDL_BUTTON_RIGHT", x |-> 0, y |-> 0],
      [type |-> "SDL_MOUSEBUTTONUP", code |-> "SDL_BUTTON_LEFT", x |-> 0, y |-> 0],
      [type |-> "SDL_MOUSEBUTTONUP", code |-> "SDL_BUTTON_RIGHT", x |-> 0, y |-> 0],
      [type |-> "SDL_MOUSEMOTION", code |-> "", x |-> 150, y |-> 540],
      [type |-> "SDL_MOUSEMOTION", code |-> "", x |-> 150, y |-> 490] }

\* Lines 361-386: SDL_PollEvent delivers the event e and the loop body
\* handles it.
MainEvent(e) ==
    /\ mpc = "poll"
    /\ running' =
          IF \/ e.type = "SDL_QUIT"
             \/ e.type = "SDL_KEYDOWN" /\ e.code = "SDLK_ESCAPE"
          THEN FALSE ELSE running
    /\ mainMouseDown' =
          IF e.type = "SDL_MOUSEBUTTONDOWN" /\ e.code = "SDL_BUTTON_LEFT"
          THEN TRUE
          ELSE IF e.type = "SDL_MOUSEBUTTONUP" /\ e.code = "SDL_BUTTON_LEFT"
          THEN FALSE ELSE mainMouseDown
    /\ mainMouseX' = IF e.type = "SDL_MOUSEMOTION" THEN e.x ELSE mainMouseX
    /\ mainMouseY' = IF e.type = "SDL_MOUSEMOTION" THEN e.y ELSE mainMouseY
    /\ UNCHANGED <<audioVars, bufferMutex, cbVars, mainVars, listenerVars,
                   handVars, histVars, procVars>>

\* ------------------------------------------------ main: startup and exit
\* The exit status of a process whose main returns r.
ExitStatus(r) == r % 256

\* A startup call failed: the subsystems in rel are released by the calls
\* relCalls and main returns -1.
StartupFailure(step, rel, relCalls) ==
    /\ failedAt' = step
    /\ held' = held \ rel
    /\ calls' = Append(calls, step) \o relCalls
    /\ exitStatus' = {ExitStatus(0 - 1)}
    /\ mpc' = "exited"

\* A startup call succeeded and initialised the subsystem sub.
StartupSuccess(step, sub, next) ==
    /\ failedAt' = failedAt
    /\ held' = held \cup {sub}
    /\ calls' = Append(calls, step)
    /\ exitStatus' = exitStatus
    /\ mpc' = next

\* Lines 284-287: SDL_Init.
MainSdlInit(ok) ==
    /\ mpc = "SDL_Init"
    /\ IF ok
       THEN StartupSuccess("SDL_Init", "sdl", "SDL_CreateWindow")
       ELSE StartupFailure("SDL_Init", {}, <<>>)
    /\ UNCHANGED <<audioVars, bufferMutex, cbVars, knobs, knobI, argX, argY,
                   argDown, pending, drawI, polyline, listenerVars, handVars,
                   histVars, mouseVars, startError, streamStarted,
                   listenerStarted>>

\* Lines 289-297: SDL_CreateWindow.
MainCreateWindow(ok) ==
    /\ mpc = "SDL_CreateWindow"
    /\ IF ok
       THEN StartupSuccess("SDL_CreateWindow", "window", "SDL_CreateRenderer")
       ELSE StartupFailure("SDL_CreateWindow", {"sdl"}, <<"SDL_Quit">>)
    /\ UNCHANGED <<audioVars, bufferMutex, cbVars, knobs, knobI, argX, argY,
                   argDown, pending, drawI, polyline, listenerVars, handVars,
                   histVars, mouseVars, startError, streamStarted,
                   listenerStarted>>

\* Lines 299-305: SDL_CreateRenderer.
MainCreateRenderer(ok) ==
    /\ mpc = "SDL_CreateRenderer"
    /\ IF ok
       THEN StartupSuccess("SDL_CreateRenderer", "renderer", "Pa_Initialize")
       ELSE StartupFailure("SDL_CreateRenderer", {"window", "sdl"},
                           <<"SDL_DestroyWindow", "SDL_Quit">>)
    /\ UNCHANGED <<audioVars, bufferMutex, cbVars, knobs, knobI, argX, argY,
                   argDown, pending, drawI, polyline, listenerVars, handVars,
                   histVars, mouseVars, startError, streamStarted,
                   listenerStarted>>

MainPaInitializeTerminating(ok) ==
    /\ mpc = "Pa_Initialize"
    /\ IF ok
       THEN StartupSuccess("Pa_Initialize", "pa", "Pa_OpenDefaultStream")
       ELSE StartupFailure("Pa_Initialize", {"pa", "renderer", "window", "sdl"},
                           <<"Pa_Terminate", "SDL_DestroyRenderer",
                             "SDL_DestroyWindow", "SDL_Quit">>)
    /\ UNCHANGED <<audioVars, bufferMutex, cbVars, knobs, knobI, argX, argY,
                   argDown, pending, drawI, polyline, listenerVars, handVars,
                   histVars, mouseVars, startError, streamStarted,
                   listenerStarted>>
\* Lines 312-319: Pa_Initialize.
MainPaInitialize(ok) ==
    /\ mpc = "Pa_Initialize"
    /\ IF ok
       THEN StartupSuccess("Pa_Initialize", "pa", "Pa_OpenDefaultStream")
       ELSE StartupFailure("Pa_Initialize", {"renderer", "window", "sdl"},
                           <<"SDL_DestroyRenderer", "SDL_DestroyWindow",
                             "SDL_Quit">>)
    /\ UNCHANGED <<audioVars, bufferMutex, cbVars, knobs, knobI, argX, argY,
                   argDown, pending, drawI, polyline, listenerVars, handVars,
                   histVars, mouseVars, startError, streamStarted,
                   listenerStarted>>

\* Lines 321-331: Pa_OpenDefaultStream.
MainOpenStream(ok) ==
    /\ mpc = "Pa_OpenDefaultStream"
    /\ IF ok
       THEN StartupSuccess("Pa_OpenDefaultStream", "stream", "Pa_StartStream")
       ELSE StartupFailure("Pa_OpenDefaultStream",
                           {"pa", "renderer", "window", "sdl"},
                           <<"Pa_Terminate", "SDL_DestroyRenderer",
                             "SDL_DestroyWindow", "SDL_Quit">>)
    /\ UNCHANGED <<audioVars, bufferMutex, cbVars, knobs, knobI, argX, argY,
                   argDown, pending, drawI, polyline, listenerVars, handVars,
                   histVars, mouseVars, startError, streamStarted,
                   listenerStarted>>

\* Line 333: Pa_StartStream(stream); the value it returns is not looked at.
MainStartStream(ok) ==
    /\ mpc = "Pa_StartStream"
    /\ streamStarted' = ok
    /\ startError' = ~ok
    /\ calls' = Append(calls, "Pa_StartStream")
    /\ mpc' = "knobs"
    /\ UNCHANGED <<audioVars, bufferMutex, cbVars, knobs, knobI, argX, argY,
                   argDown, pending, drawI, polyline, listenerVars, handVars,
                   histVars, mouseVars, held, listenerStarted, exitStatus,
                   failedAt>>

\* Lines 336-341: the three knobs are created.
MainCreateKnobs ==
    /\ mpc = "knobs"
    /\ knobs' = [k \in Knobs |-> NewKnob(k)]
    /\ mpc' = "std::thread"
    /\ UNCHANGED <<audioVars, bufferMutex, cbVars, knobI, argX, argY, argDown,
                   pending, drawI, polyline, listenerVars, handVars, histVars,
                   mouseVars, procVars>>

\* The status the shell reports for a process ended by std::terminate, which
\* raises SIGABRT (signal 6).
TerminatedStatus == 128 + 6

\* Lines 351-358: the listener thread is started and detached, the locals of
\* the main loop are initialised and the loop is entered.  When the thread
\* cannot be started the constructor throws std::system_error, which nothing
\* catches: std::terminate ends the process where it stands, with no release
\* call and with the stream still started.
MainStartListener(ok) ==
    /\ mpc = "std::thread"
    /\ calls' = Append(calls, "std::thread")
    /\ IF ok
       THEN /\ listenerStarted' = TRUE
            /\ running' = TRUE
            /\ mainMouseX' = 0
            /\ mainMouseY' = 0
            /\ mainMouseDown' = FALSE
            /\ mpc' = "while"
            /\ UNCHANGED <<exitStatus, failedAt>>
       ELSE /\ failedAt' = "std::thread"
            /\ exitStatus' = {TerminatedStatus}
            /\ mpc' = "exited"
            /\ UNCHANGED <<listenerStarted, mouseVars>>
    /\ UNCHANGED <<audioVars, bufferMutex, cbVars, knobs, knobI, argX, argY,
                   argDown, pending, drawI, polyline, listenerVars, handVars,
                   histVars, held, startError, streamStarted>>

\* Line 360: while(running), the loop is over.
MainLoopExit ==
    /\ mpc = "while"
    /\ ~running
    /\ mpc' = "cleanup"
    /\ UNCHANGED <<audioVars, bufferMutex, cbVars, knobs, knobI, argX, argY,
                   argDown, pending, drawI, polyline, listenerVars, handVars,
                   histVars, mouseVars, procVars>>

\* Lines 450-458: the stream is stopped and closed, everything is released
\* and main returns 0.
MainCleanup ==
    /\ mpc = "cleanup"
    /\ streamStarted' = FALSE
    /\ held' = {}
    /\ calls' = calls \o <<"Pa_StopStream", "Pa_CloseStream", "Pa_Terminate",
                           "SDL_DestroyRenderer", "SDL_DestroyWindow",
                           "SDL_Quit">>
    /\ exitStatus' = {ExitStatus(0)}
    /\ mpc' = "exited"
    /\ UNCHANGED <<audioVars, bufferMutex, cbVars, knobs, knobI, argX, argY,
                   argDown, pending, drawI, polyline, listenerVars, handVars,
                   histVars, mouseVars, startError, listenerStarted, failedAt>>

StartupNext ==
    \/ \E ok \in BOOLEAN : MainSdlInit(ok)
    \/ \E ok \in BOOLEAN : MainCreateWindow(ok)
    \/ \E ok \in BOOLEAN : MainCreateRenderer(ok)
    \/ \E ok \in BOOLEAN : MainPaInitialize(ok)
    \/ \E ok \in BOOLEAN : MainOpenStream(ok)
    \/ \E ok \in BOOLEAN : MainStartStream(ok)
    \/ MainCreateKnobs
    \/ \E ok \in BOOLEAN : MainStartListener(ok)

ShutdownNext ==
    \/ MainLoopExit
    \/ MainCleanup

\* ---------------------------------------------------------- specifications
\* Lines 147-152: the oscillator parameters of a SawtoothData.
Oscillator(f, p, o, a) ==
    /\ frequency = f
    /\ phase = p
    /\ phaseOffset = o
    /\ amplitude = a

\* Lines 151-152, 256-257, 355-358: the ring buffer, the atomics, the locals
\* of the main loop, and the threads before they have done anything.
InitThreads ==
    /\ waveBuffer = [j \in 0 .. WAVE_SAMPLES - 1 |-> FloatZero]
    /\ bufferIndex = 0
    /\ bufferMutex = "none"
    /\ apc = "idle"
    /\ framesPerBuffer = 0
    /\ ai = 0
    /\ out = <<FloatZero, FloatZero>>
    /\ adjustedPhase = FloatZero
    /\ knobI = 0
    /\ argX = 0
    /\ argY = 0
    /\ argDown = FALSE
    /\ pending = {}
    /\ drawI = 0
    /\ polyline = <<>>
    /\ lpc = "recv"
    /\ lx = 0
    /\ ly = 0
    /\ lpinch = 0
    /\ handX = 0
    /\ handY = 0
    /\ handPinch = FALSE
    /\ framesGenerated = 0
    /\ recorded = <<>>
    /\ holdWrites = 0
    /\ holdReads = 0
    /\ delivered = {<<0, 0, FALSE>>}
    /\ nPackets = 0
    /\ prevDown = [k \in Knobs |-> FALSE]
    /\ torn = FALSE
    /\ wasDragging = FALSE
    /\ received = <<>>
    /\ running = TRUE
    /\ mainMouseX = 0
    /\ mainMouseY = 0
    /\ mainMouseDown = FALSE

\* Lines 151-152, 256-257, 336-358: the state when the main loop is entered
\* after a startup in which every call succeeded.
Init ==
    /\ Oscillator(IntToFloat[440], FloatZero, FloatZero, Float[30])
    /\ InitThreads
    /\ mpc = "while"
    /\ knobs = [k \in Knobs |-> NewKnob(k)]
    /\ held = Subsystems
    /\ startError = FALSE
    /\ streamStarted = TRUE
    /\ listenerStarted = TRUE
    /\ exitStatus = {}
    /\ calls = StartupCalls
    /\ failedAt = "none"

\* Line 282: the state when main() is called.
InitProcess ==
    /\ Oscillator(IntToFloat[440], FloatZero, FloatZero, Float[30])
    /\ InitThreads
    /\ mpc = "SDL_Init"
    /\ knobs = <<>>
    /\ held = {}
    /\ startError = FALSE
    /\ streamStarted = FALSE
    /\ listenerStarted = FALSE
    /\ exitStatus = {}
    /\ calls = <<>>
    /\ failedAt = "none"

\* The main thread from the call of main() to its return, with the window
\* events (no datagram arrives, the stream is not called).
NextProcess ==
    \/ StartupNext
    \/ \E e \in Events : MainEvent(e)
    \/ MainNext /\ UNCHANGED <<mouseVars, procVars>>
    \/ ShutdownNext
SpecProcess == InitProcess /\ [][NextProcess]_vars

\* The three threads together, once the main loop is entered (no window
\* event arrives).
Next ==
    /\ AudioNext \/ MainNext \/ ListenerNext
    /\ UNCHANGED <<mouseVars, procVars>>
Spec == Init /\ [][Next]_vars

\* The audio thread and the main thread (no datagram arrives).
NextRing ==
    /\ AudioNext \/ MainNext
    /\ UNCHANGED <<mouseVars, procVars>>
SpecRing == Init /\ [][NextRing]_vars

\* The listener thread and the main thread (the stream is not called).
NextPointer ==
    /\ ListenerNext \/ MainNext
    /\ UNCHANGED <<mouseVars, procVars>>
SpecPointer == Init /\ [][NextPointer]_vars

\* Frequencies in (0, SAMPLE_RATE) that data.frequency, a public field of
\* the callback's userData, may hold when the callback runs: the floats of
\* 0.01, 50, 440, 2000, SAMPLE_RATE / 2 and SAMPLE_RATE - 0.01.
Frequencies ==
    {Float[1], KnobMin(0), KnobInitial(0), KnobMax(0), Float[50 * SAMPLE_RATE],
     Float[100 * SAMPLE_RATE - 1]}

\* Values of the frequency knob, which are what line 395 stores: its
\* minimum, its initial value and its maximum.
KnobFrequencies == {KnobMin(0), KnobInitial(0), KnobMax(0)}

\* Line 395: data.frequency = knobs[i].value, stored by the main thread
\* without the lock, so at any point of the callback.
MainStoreFrequency(f) ==
    /\ frequency # f
    /\ frequency' = f
    /\ UNCHANGED <<phase, phaseOffset, amplitude, waveBuffer, bufferIndex,
                   bufferMutex, cbVars, mainVars, listenerVars, handVars,
                   histVars>>

\* The phase update as a function of the frequency: the callback is handed
\* a SawtoothData with any of Frequencies.
InitPhase ==
    /\ \E f \in Frequencies :
           Oscillator(f, FloatZero, FloatZero, Float[30])
    /\ InitThreads
    /\ mpc = "while"
    /\ knobs = [k \in Knobs |-> NewKnob(k)]
    /\ held = Subsystems
    /\ startError = FALSE
    /\ streamStarted = TRUE
    /\ listenerStarted = TRUE
    /\ exitStatus = {}
    /\ calls = StartupCalls
    /\ failedAt = "none"

\* The audio thread during one block of the largest size, with the frequency
\* knob's value stored between its steps.
NextPhase ==
    /\ \/ AudioInvoke(MaxFramesPerBuffer)
       \/ AudioLock
       \/ AudioFrameAdjust
       \/ AudioFrameSample
       \/ AudioFrameAdvance
       \/ AudioReturn
       \/ \E f \in KnobFrequencies : MainStoreFrequency(f)
    /\ UNCHANGED <<mouseVars, procVars>>
SpecPhase == InitPhase /\ [][NextPhase]_vars

\* Phases in [0, 1): 0, 2^-24, the float below 0.5 (its sum with the phase
\* offset 0.5 rounds to 1.0f), 0.5 and the float below 1.0 (its sum with the
\* phase offset 1.0 rounds to 2.0f); the phase offsets the phase knob holds
\* after a drag of 0, 1, 50, 99 and 100 pixels upwards from 0 (the last two
\* are the float below the one nearest to 0.99, and 1.0f); the amplitudes
\* 0, 0.3f and 1.0f of the amplitude knob.
PhaseSamples ==
    { FloatZero,
      [neg |-> FALSE, m |-> 2^23, e |-> 0 - 47],
      [neg |-> FALSE, m |-> 2^24 - 1, e |-> 0 - 25],
      [neg |-> FALSE, m |-> 2^23, e |-> 0 - 24],
      [neg |-> FALSE, m |-> 2^24 - 1, e |-> 0 - 24] }
OffsetSamples ==
    { Clamp(1, FloatMul[IntToFloat[n], Sensitivity(1)]) :
        n \in {0, 1, 50, 99, 100} }
AmplitudeSamples == {KnobMin(2), KnobInitial(2), KnobMax(2)}

\* The waveform generator as a function of the oscillator parameters: the
\* callback starts from any sampled phase, phase offset and amplitude, and
\* the main thread stores a new phase offset or amplitude at any point.
InitGenerator ==
    /\ \E p \in PhaseSamples, o \in OffsetSamples, a \in AmplitudeSamples :
           Oscillator(KnobInitial(0), p, o, a)
    /\ InitThreads
    /\ mpc = "while"
    /\ knobs = [k \in Knobs |-> NewKnob(k)]
    /\ held = Subsystems
    /\ startError = FALSE
    /\ streamStarted = TRUE
    /\ listenerStarted = TRUE
    /\ exitStatus = {}
    /\ calls = StartupCalls
    /\ failedAt = "none"
\* Lines 398, 401: data.phaseOffset = knobs[i].value and data.amplitude =
\* knobs[i].value, stored by the main thread without the lock, so between
\* any two reads of the callback.
MainStorePhaseOffset(o) ==
    /\ phaseOffset # o
    /\ phaseOffset' = o
    /\ UNCHANGED <<frequency, phase, amplitude, waveBuffer, bufferIndex,
                   bufferMutex, cbVars, mainVars, listenerVars, handVars,
                   histVars>>
MainStoreAmplitude(a) ==
    /\ amplitude # a
    /\ amplitude' = a
    /\ UNCHANGED <<frequency, phase, phaseOffset, waveBuffer, bufferIndex,
                   bufferMutex, cbVars, mainVars, listenerVars, handVars,
                   histVars>>
NextGenerator ==
    /\ \/ AudioInvoke(MaxFramesPerBuffer)
       \/ AudioLock
       \/ AudioFrameAdjust
       \/ AudioFrameSample
       \/ AudioFrameAdvance
       \/ AudioReturn
       \/ \E o \in OffsetSamples : MainStorePhaseOffset(o)
       \/ \E a \in AmplitudeSamples : MainStoreAmplitude(a)
    /\ UNCHANGED <<mouseVars, procVars>>
SpecGenerator == InitGenerator /\ [][NextGenerator]_vars

\* The audio thread, called with blocks of every size, and the main thread,
\* under fair scheduling: a thread that can take a step, and stays able to
\* until it takes one, takes it.  A thread inside its critical section keeps
\* running (the callback's frame loop, lines 167-190, and drawWaveform's
\* loop, lines 202-216, call nothing that blocks), the main loop goes round as
\* long as running is true (lines 360-447), and a thread blocked in the
\* lock_guard's constructor (lines 165, 194) goes on when the mutex is free
\* and stays free until it has taken it.  std::mutex promises no more than
\* that: when the mutex is released while a thread waits for it, nothing says
\* that the waiting thread is the next to take it.  Nothing forces the
\* backend to call the callback.
NextLock ==
    /\ \/ AudioNext
       \/ MainNext
    /\ UNCHANGED <<mouseVars, procVars>>
LockFairness ==
    /\ WF_vars(AudioLock /\ UNCHANGED <<mouseVars, procVars>>)
    /\ WF_vars(AudioFrameAdjust /\ UNCHANGED <<mouseVars, procVars>>)
    /\ WF_vars(AudioFrameSample /\ UNCHANGED <<mouseVars, procVars>>)
    /\ WF_vars(AudioFrameAdvance /\ UNCHANGED <<mouseVars, procVars>>)
    /\ WF_vars(AudioReturn /\ UNCHANGED <<mouseVars, procVars>>)
    /\ WF_vars(MainNext /\ UNCHANGED <<mouseVars, procVars>>)
SpecLockFair == Init /\ [][NextLock]_vars /\ LockFairness

\* The listener thread alone, the sender sending ParsePackets.
NextListener ==
    /\ \/ \E b \in ParsePackets : ListenerRecv(b)
       \/ ListenerStoreX
       \/ ListenerStoreY
       \/ ListenerStorePinch
    /\ UNCHANGED <<mouseVars, procVars>>
SpecListener == Init /\ [][NextListener]_vars

\* The listener thread and the main thread, the sender sending KnobPackets.
ListenerNextKnobs ==
    \/ \E b \in KnobPackets : ListenerRecv(b)
    \/ ListenerStoreX
    \/ ListenerStoreY
    \/ ListenerStorePinch
NextKnobs ==
    /\ ListenerNextKnobs \/ MainNext
    /\ UNCHANGED <<mouseVars, procVars>>
SpecKnobs == Init /\ [][NextKnobs]_vars

\* The listener thread and the main thread, the sender sending DragPackets.
ListenerNextDrag ==
    \/ \E b \in DragPackets : ListenerRecv(b)
    \/ ListenerStoreX
    \/ ListenerStoreY
    \/ ListenerStorePinch
NextDrag ==
    /\ ListenerNextDrag \/ MainNext
    /\ UNCHANGED <<mouseVars, procVars>>
SpecDrag == Init /\ [][NextDrag]_vars

\* ------------------------------------------------------------------ claims
\* The first buffer read of a drawWaveform pass is done, the last is not.
PassUnderWay == mpc = "draw_loop" /\ 1 <= drawI /\ drawI < WAVE_SAMPLES - 1

\* C1: between the first and the last buffer read of one drawWaveform pass
\* no step of any thread writes waveBuffer or changes bufferIndex.
C1_NoWriteDuringPass ==
    [][PassUnderWay =>
          (waveBuffer' = waveBuffer /\ bufferIndex' = bufferIndex)]_vars

\* A pass is under way while the callback, invoked after earlier writes,
\* waits for the mutex.
C1_Witness == PassUnderWay /\ apc = "lock" /\ Len(recorded) > 0

\* C2: while the audio callback holds the mutex it has performed at most one
\* buffer write (and cursor increment) since it acquired it.
C2_OneWritePerLockHold == bufferMutex = "audio" => holdWrites <= 1

\* C3: whenever the callback waits for the mutex held by drawWaveform, the
\* reader has performed fewer buffer reads under this hold than the buffer
\* has samples (it does not hold the mutex across a full pass).
C3_ReaderHoldBelowCapacity ==
    (apc = "lock" /\ bufferMutex = "main") => holdReads < WAVE_SAMPLES

\* The arguments of the Knob::update call of line 390 are all loaded.
CallReady == mpc = "args" /\ pending = {}

\* C4: the (x, y, active) the main loop passes to a knob update is the
\* content of one well-formed packet received so far, or the initial signal.
C4_ReadIsOnePacket == CallReady => <<argX, argY, argDown>> \in delivered

\* C5: the write cursor, and every index about to be used to write or read
\* waveBuffer, lies in 0 .. capacity-1.
C5_IndicesInRange ==
    /\ bufferIndex \in 0 .. WAVE_SAMPLES - 1
    /\ DOMAIN waveBuffer = 0 .. WAVE_SAMPLES - 1
    /\ (mpc = "draw_loop" /\ drawI < WAVE_SAMPLES - 1) =>
          /\ SampleIndex(bufferIndex, drawI) \in 0 .. WAVE_SAMPLES - 1
          /\ SampleIndex(bufferIndex, drawI + 1) \in 0 .. WAVE_SAMPLES - 1

\* The cursor has wrapped around and a pass reads across the wrap.
C5_Witness ==
    /\ Len(recorded) > WAVE_SAMPLES
    /\ bufferIndex = WAVE_SAMPLES - 1
    /\ mpc = "draw_loop"
    /\ drawI = 1

\* All reads of a drawWaveform pass are done, the mutex is still held.
PassComplete == mpc = "draw_loop" /\ drawI = WAVE_SAMPLES - 1

\* The samples read at positions 0 .. capacity-1 of the pass, in order.
PassSamples ==
    [p \in 1 .. WAVE_SAMPLES |->
        IF p = 1 THEN polyline[1][1] ELSE polyline[p - 1][2]]

\* The last capacity samples written, oldest first.
LastRecorded ==
    [p \in 1 .. WAVE_SAMPLES |->
        recorded[Len(recorded) - WAVE_SAMPLES + p].sample]

\* C6: once at least capacity samples were recorded, a completed pass has
\* read exactly the last capacity recorded samples, oldest first, and the
\* end of each segment is the start of the next.
C6_PassIsMostRecent ==
    (PassComplete /\ Len(recorded) >= WAVE_SAMPLES) =>
        /\ Len(polyline) = WAVE_SAMPLES - 1
        /\ PassSamples = LastRecorded
        /\ \A j \in 1 .. WAVE_SAMPLES - 2 : polyline[j][2] = polyline[j + 1][1]

\* A pass completed after the buffer was overwritten, the cursor not at 0.
C6_Witness ==
    PassComplete /\ Len(recorded) > WAVE_SAMPLES /\ bufferIndex # 0

\* The stream frames recorded so far.
RecordedFrames == {recorded[j].frame : j \in 1 .. Len(recorded)}

\* C7 as claimed: the recorded frames are exactly every 4th frame of the
\* output stream, counted from its first frame.
C7_EveryFourthStreamFrame ==
    RecordedFrames = {f \in 0 .. framesGenerated - 1 : f % 4 = 0}

\* Every block so far started at a multiple of 4 frames of the stream, that
\* is, every earlier block size was a multiple of 4.
AlignedBlocks ==
    \A j \in 1 .. Len(recorded) :
        recorded[j].i = 0 => recorded[j].frame % 4 = 0

\* C7 amended: a frame is recorded exactly when its index within its block
\* is a multiple of 4; the write goes to the cursor slot and advances the
\* cursor by one modulo capacity; nothing else touches buffer or cursor; and
\* when all blocks are aligned the recorded frames are every 4th stream frame.
C7_EveryFourthFrameOfBlock ==
    [][/\ framesGenerated' = framesGenerated + 1 =>
            IF ai % 4 = 0
            THEN /\ recorded' = Append(recorded,
                        [frame |-> framesGenerated, i |-> ai,
                         sample |-> out'[1]])
                 /\ waveBuffer' = [waveBuffer EXCEPT ![bufferIndex] = out'[1]]
                 /\ bufferIndex' = (bufferIndex + 1) % WAVE_SAMPLES
            ELSE UNCHANGED <<recorded, waveBuffer, bufferIndex>>
       /\ framesGenerated' = framesGenerated =>
            UNCHANGED <<recorded, waveBuffer, bufferIndex>>
       /\ (AlignedBlocks => C7_EveryFourthStreamFrame)'
      ]_vars

\* A block that does not start at a multiple of 4 recorded its frame 4.
C7_Witness ==
    \E j \in 1 .. Len(recorded) :
        recorded[j].i = 4 /\ recorded[j].frame % 4 # 0

\* C8 as claimed, as long as every update was called with the content of one
\* packet: an update that takes a knob from Idle to Dragging has the pointer
\* engaged and within the radius, and the knob's previous update saw it not
\* engaged.
C8_DragStartsOnEngagementEdge ==
    (mpc = "sync" /\ ~wasDragging /\ knobs[knobI].isDragging /\ ~torn) =>
        /\ argDown
        /\ WithinRadius(knobI, argX, argY)
        /\ ~prevDown[knobI]

\* C9: an update of a Dragging knob with engagement false makes it Idle and
\* leaves its value, with engagement true leaves it Dragging, whatever the
\* pointer position.
C9_DraggingFollowsEngagement ==
    [][(CallReady /\ mpc' = "sync" /\ knobs[knobI].isDragging) =>
          IF argDown
          THEN knobs'[knobI].isDragging
          ELSE /\ ~knobs'[knobI].isDragging
               /\ knobs'[knobI].value = knobs[knobI].value]_vars

\* A Dragging knob was released with the pointer outside its radius.
C9_Witness ==
    /\ mpc = "sync"
    /\ wasDragging
    /\ ~knobs[knobI].isDragging
    /\ ~argDown
    /\ ~WithinRadius(knobI, argX, argY)

\* The value the drag formula gives knob k for the start value v, the start
\* y and the current y, in float arithmetic: the factor (max - min) / 100
\* first, its product with startY - currentY, the sum with v, and the sum
\* limited to the knob's range.
DragValue(k, v, startY, currentY) ==
    LET factor == FloatDiv[FloatAdd[KnobMax(k), FloatNeg[KnobMin(k)]],
                           IntToFloat[100]]
        raw == FloatAdd[v, FloatMul[FloatSub[startY, IntToFloat[currentY]],
                                    factor]]
    IN  IF FloatGe[KnobMin(k), raw] THEN KnobMin(k)
        ELSE IF FloatGe[raw, KnobMax(k)] THEN KnobMax(k) ELSE raw

\* C10: dragStartValue and dragStartY are the value and pointer y at the
\* update that starts the drag and do not change while the knob is Dragging;
\* after every engaged update of a Dragging knob its value is the clamped
\* drag formula, computed in floats; for the frequency knob at 440, 50 px up
\* gives 1415 and 500 px down gives 50.
C10_DragValue ==
    [][\A k \in Knobs :
        /\ (~knobs[k].isDragging /\ knobs'[k].isDragging) =>
              /\ knobs'[k].dragStartY = IntToFloat[argY]
              /\ knobs'[k].dragStartValue = knobs[k].value
        /\ (knobs[k].isDragging /\ knobs'[k].isDragging) =>
              /\ knobs'[k].dragStartY = knobs[k].dragStartY
              /\ knobs'[k].dragStartValue = knobs[k].dragStartValue
        /\ (CallReady /\ mpc' = "sync" /\ k = knobI /\ argDown
                /\ knobs'[k].isDragging) =>
              /\ knobs'[k].value =
                    DragValue(k, knobs'[k].dragStartValue,
                              knobs'[k].dragStartY, argY)
              /\ (k = 0 /\ knobs'[k].dragStartValue = IntToFloat[440]
                    /\ knobs'[k].dragStartY = IntToFloat[argY + 50]) =>
                        knobs'[k].value = IntToFloat[1415]
              /\ (k = 0 /\ knobs'[k].dragStartValue = IntToFloat[440]
                    /\ knobs'[k].dragStartY = IntToFloat[argY - 500]) =>
                        knobs'[k].value = IntToFloat[50]
      ]_vars

\* The phase knob, dragged from 0 by 5 px up, is at 5 times the float of
\* 0.01, rounded: 0.049999997 (bits 0x3d4ccccc), the float below the one
\* nearest to 0.05.
C10_Witness ==
    /\ mpc = "sync"
    /\ knobI = 1
    /\ knobs[1].isDragging
    /\ argDown
    /\ knobs[1].dragStartValue = FloatZero
    /\ knobs[1].dragStartY = IntToFloat[argY + 5]
    /\ knobs[1].value = [neg |-> FALSE, m |-> 13421772, e |-> 0 - 28]

\* C11: in every reachable state the value of each knob lies between the
\* knob's minimum and maximum (50 and 2000 for the frequency knob, 0 and 1
\* for the others), whatever pointer positions (however large or negative)
\* and engagement flags the updates were called with.
C11_ValueWithinRange ==
    \A k \in Knobs :
        /\ k = 0 => /\ FloatGe[knobs[k].value, IntToFloat[50]]
                    /\ FloatGe[IntToFloat[2000], knobs[k].value]
        /\ k # 0 => /\ FloatGe[knobs[k].value, FloatZero]
                    /\ FloatGe[FloatOne, knobs[k].value]

\* The frequency knob was dragged to a pointer position far above the window
\* and stands at its maximum.
C11_Witness ==
    /\ knobs[0].isDragging
    /\ handY < 0 - 1000
    /\ knobs[0].value = IntToFloat[2000]

\* C12 as stated: frequency > 0, phaseOffset in [0,1) with 1.0 excluded,
\* amplitude in [0,1], in every reachable state.
C12_OffsetBelowOne ==
    /\ FloatLt[FloatZero, frequency]
    /\ FloatGe[phaseOffset, FloatZero] /\ FloatLt[phaseOffset, FloatOne]
    /\ FloatGe[amplitude, FloatZero] /\ FloatGe[FloatOne, amplitude]

\* C12 amended: frequency > 0, phaseOffset in [0,1] with 1.0 included (the
\* maximum of the phase knob), amplitude in [0,1], in every reachable state.
C12_ParametersInKnobRanges ==
    /\ FloatLt[FloatZero, frequency]
    /\ FloatGe[phaseOffset, FloatZero] /\ FloatGe[FloatOne, phaseOffset]
    /\ FloatGe[amplitude, FloatZero] /\ FloatGe[FloatOne, amplitude]

\* The phase knob was dragged to its maximum and the main loop has copied
\* the value into the oscillator.
C12_Witness ==
    /\ knobs[1].isDragging
    /\ phaseOffset = FloatOne

\* The float x is in [0, 1): zero, or positive with its leading bit below
\* the units.
InUnitInterval(x) == ~x.neg /\ (x.m = 0 \/ x.e <= 0 - 24)

\* C13: the oscillator phase is in [0,1) in every reachable state, for
\* frequencies anywhere in (0, SAMPLE_RATE) and with the frequency changed
\* between frames.
C13_PhaseInUnitInterval == InUnitInterval(phase)

\* Three frames are done: two at SAMPLE_RATE / 2, after which the phase was
\* 1.0f and was reduced to 0, and one at 440 Hz, stored in between.
C13_Witness ==
    /\ framesGenerated = 3
    /\ apc = "loop"
    /\ ai = 3
    /\ frequency = IntToFloat[440]
    /\ phase = FloatDiv[IntToFloat[440], IntToFloat[SAMPLE_RATE]]

\* C14: every frame the callback generates carries, in both output channels,
\* the sample (2 * frac(phase + phaseOffset) - 1) * amplitude, with frac the
\* fractional part in [0,1) of the float sum of the phase and the phase
\* offset read at line 169, and the amplitude read at line 173; the sample
\* lies in [-amplitude, +amplitude].
C14_SampleIsSawtooth ==
    [][/\ (apc = "loop" /\ apc' = "sample") =>
            LET sum == FloatAdd[phase, phaseOffset]
                frac == IF FloatGe[sum, FloatTwo] THEN FloatSub[sum, FloatTwo]
                        ELSE IF FloatGe[sum, FloatOne]
                        THEN FloatSub[sum, FloatOne]
                        ELSE sum
            IN  /\ adjustedPhase' = frac
                /\ InUnitInterval(adjustedPhase')
       /\ framesGenerated' = framesGenerated + 1 =>
            LET sample ==
                    FloatMul[FloatSub[FloatAdd[adjustedPhase, adjustedPhase],
                                      FloatOne],
                             amplitude]
            IN  /\ out' = <<sample, sample>>
                /\ MagnitudeGe[amplitude, out'[1]]
      ]_vars

\* A frame was generated at phase 0 with a phase offset that folds to 0 (0 or
\* 1.0) and amplitude 1.0: the sample is -1.0 in both channels.  The main
\* thread stored the phase offset 0.5 after the callback had read the offset,
\* so the sample is not the one of the offset now stored.
C14_Witness ==
    /\ framesGenerated = 1
    /\ apc = "advance"
    /\ phase = FloatZero
    /\ phaseOffset = [neg |-> FALSE, m |-> 2^23, e |-> 0 - 24]
    /\ amplitude = FloatOne
    /\ out = <<FloatNeg[FloatOne], FloatNeg[FloatOne]>>

\* What each datagram of ParsePackets says: the triple <<x, y, active>> when
\* it carries x and y (active exactly when it carries pinch = 1), or nothing.
PacketContent(b) ==
    CASE b = <<"1", "0", "0", ",", "2", "0", "0", ",", "1">> ->
             <<100, 200, TRUE>>
      [] b = <<"1", "0", ",", "2", "0">> ->
             <<10, 20, FALSE>>
      [] b = <<"5", ",", "6", ",", "2">> ->
             <<5, 6, FALSE>>
      [] b = <<"-", "3", ",", "4", ",", "1">> ->
             <<0 - 3, 4, TRUE>>
      [] b = <<"7", ",", "8", ",", "x">> ->
             <<7, 8, FALSE>>
      [] b = <<"\f", "5", ",", "6", ",", "1">> ->
             <<5, 6, TRUE>>
      [] b = <<"5", ",", VerticalTab, "6">> ->
             <<5, 6, FALSE>>
      [] b = <<"1", ",", "2", ",",
               "4", "2", "9", "4", "9", "6", "7", "2", "9", "7">> ->
             <<1, 2, FALSE>>
      [] b = [i \in 1 .. 60 |-> " "] \o <<"1", ",", "2", ",", "1">> ->
             <<1, 2, TRUE>>
      [] OTHER -> <<>>

\* The signal after the datagrams of h: the content of the last one that
\* carries x and y, or the initial signal when there is none.
RECURSIVE SignalAfter(_)
SignalAfter(h) ==
    IF h = <<>> THEN <<0, 0, FALSE>>
    ELSE IF PacketContent(h[Len(h)]) # <<>> THEN PacketContent(h[Len(h)])
    ELSE SignalAfter(SubSeq(h, 1, Len(h) - 1))

\* C15: a datagram from which x and y cannot both be parsed changes none of
\* the three fields of the pointer signal: the step that receives it, and
\* every step while it is the last one received, leaves them as they were and
\* leaves the listener at recv, ready for the next datagram.
C15_MalformedPacketIgnored ==
    [][(received' # <<>> /\ PacketContent(received'[Len(received')]) = <<>>) =>
           /\ <<handX, handY, handPinch>>' = <<handX, handY, handPinch>>
           /\ lpc' = "recv"
      ]_vars

\* "garbage" arrived after "100,200,1" and the signal is still 100, 200,
\* active.
C15_Witness ==
    /\ received = <<<<"1", "0", "0", ",", "2", "0", "0", ",", "1">>,
                    <<"g", "a", "r", "b", "a", "g", "e">>>>
    /\ <<handX, handY, handPinch>> = <<100, 200, TRUE>>
    /\ lpc = "recv"

\* C16: whenever the listener is back at recv, the pointer signal is the
\* content of the most recent well-formed datagram: its x and y, and active
\* exactly when that datagram carries pinch = 1 (the pinch of an earlier
\* datagram does not carry over).
C16_SignalIsLastWellFormed ==
    lpc = "recv" => <<handX, handY, handPinch>> = SignalAfter(received)

\* The positions of main() inside the main loop.
MainLoopPositions ==
    {"while", "poll", "args", "sync", "draw_lock", "draw_loop", "present"}

\* C17: when Pa_StartStream has reported an error, main() is never inside the
\* main loop, and when it has exited its status is not zero.
C17_StartErrorIsFatal ==
    startError =>
        /\ mpc \notin MainLoopPositions
        /\ 0 \notin exitStatus

\* One of the five startup calls whose result main() checks has failed.
StartupFailed ==
    failedAt \in {"SDL_Init", "SDL_CreateWindow", "SDL_CreateRenderer",
                  "Pa_Initialize", "Pa_OpenDefaultStream"}

\* The subsystems initialised before the startup call named step.
InitialisedBefore(step) ==
    CASE step = "SDL_Init" -> {}
      [] step = "SDL_CreateWindow" -> {"sdl"}
      [] step = "SDL_CreateRenderer" -> {"sdl", "window"}
      [] step = "Pa_Initialize" -> {"sdl", "window", "renderer"}
      [] step = "Pa_OpenDefaultStream" -> {"sdl", "window", "renderer", "pa"}

\* The subsystem a release call releases.
Releases(call) ==
    CASE call = "SDL_Quit" -> {"sdl"}
      [] call = "SDL_DestroyWindow" -> {"window"}
      [] call = "SDL_DestroyRenderer" -> {"renderer"}
      [] call = "Pa_Terminate" -> {"pa"}
      [] call = "Pa_CloseStream" -> {"stream"}
      [] OTHER -> {}

\* The positions in calls of the release calls, and of the call named c.
ReleaseCalls == {i \in 1 .. Len(calls) : Releases(calls[i]) # {}}
CallsOf(c) == {i \in 1 .. Len(calls) : calls[i] = c}

\* C18: when one of SDL_Init, SDL_CreateWindow, SDL_CreateRenderer,
\* Pa_Initialize, Pa_OpenDefaultStream has failed, the process has exited
\* with a nonzero status, the failed call was made once, the stream and the
\* listener thread were never started, the main loop was not entered, and
\* the subsystems released are exactly those initialised before the failure,
\* each released once.
C18_StartupFailureExits ==
    StartupFailed =>
        /\ mpc = "exited"
        /\ exitStatus # {} /\ 0 \notin exitStatus
        /\ Cardinality(CallsOf(failedAt)) = 1
        /\ CallsOf("Pa_StartStream") = {}
        /\ CallsOf("std::thread") = {}
        /\ ~streamStarted /\ ~listenerStarted
        /\ UNION {Releases(calls[i]) : i \in ReleaseCalls} =
               InitialisedBefore(failedAt)
        /\ Cardinality(ReleaseCalls) = Cardinality(InitialisedBefore(failedAt))
        /\ held = {}

\* Pa_Initialize has failed after SDL, the window and the renderer were set
\* up, and the process has exited.
C18_Witness ==
    /\ failedAt = "Pa_Initialize"
    /\ mpc = "exited"
    /\ Len(calls) = 7

\* C19: with the pointer signal never written, no sequence of mouse button
\* and motion events changes a knob or an oscillator parameter: every knob
\* stays idle at its initial value.
C19_MouseLeavesKnobsAlone ==
    mpc \in MainLoopPositions =>
        /\ knobs = [k \in Knobs |-> NewKnob(k)]
        /\ Oscillator(IntToFloat[440], FloatZero, FloatZero, Float[30])

\* The left button went down with the mouse on the frequency knob, the mouse
\* was dragged 50 pixels up, and the frequency knob has been updated since.
C19_Witness ==
    /\ mainMouseDown
    /\ mainMouseX = 150
    /\ mainMouseY = 490
    /\ mpc = "sync"
    /\ knobI = 0

\* C20: the ring-buffer lock never causes a deadlock.  No thread waits for
\* the mutex while holding it; the mutex is released only by the thread that
\* holds it, at the end of its callback or drawWaveform call; every hold
\* ends; and under fair scheduling a thread that waits for the mutex gets it.
C20_LockNeverDeadlocks ==
    /\ [](~(apc = "lock" /\ bufferMutex = "audio"))
    /\ [](~(mpc = "draw_lock" /\ bufferMutex = "main"))
    /\ [][(bufferMutex = "audio" /\ bufferMutex' # "audio") =>
             (apc = "loop" /\ apc' = "idle" /\ bufferMutex' = "none")]_vars
    /\ [][(bufferMutex = "main" /\ bufferMutex' # "main") =>
             (mpc = "draw_loop" /\ mpc' = "present" /\ bufferMutex' = "none")]_vars
    /\ (bufferMutex = "audio" ~> bufferMutex # "audio")
    /\ (bufferMutex = "main" ~> bufferMutex # "main")
    /\ (apc = "lock" ~> apc = "loop")
    /\ (mpc = "draw_lock" ~> mpc = "draw_loop")
====
